---- MODULE Spec2Model ----
(***************************************************************************)
(* A model of svg-to-wkt.js: the shape formula builders, the path          *)
(* decomposer (SVGtoWKT.path), the curve-string builder (__curveString),   *)
(* curve sampling (__interpolatedPoints) and the document orchestrator     *)
(* (SVGtoWKT.convert).                                                     *)
(*                                                                         *)
(* Numbers.  A finite JavaScript number is an integer count of             *)
(* 10^-PRECISION (value 10 is 10000 when PRECISION = 3); not-a-number and  *)
(* undefined are tagged values (JNum / JNaN / JUndef) where the code can   *)
(* meet them.  Text.  A string the program builds is the sequence of its   *)
(* tokens (keywords, parentheses, commas, blanks, numerals); Text(toks) is *)
(* the string itself.                                                      *)
(*                                                                         *)
(* Host.  The DOM calls of the code (getPathData, getTotalLength,          *)
(* getPointAtLength, DOMParser, appendChild) are modelled by what the      *)
(* browser does on the inputs the model draws: path data is given as the   *)
(* list of commands written in the d attribute; curved commands are drawn  *)
(* only in shapes whose geometry is exact in integers (a Bezier whose      *)
(* control points lie on its chord, an arc with a zero radius, both        *)
(* straight segments; a circular arc whose radius is at most half its      *)
(* chord, a semicircle).                                                   *)
(***************************************************************************)
EXTENDS Integers, Sequences, FiniteSets, TLC

\* ---------------------------------------------------------------- bounds
MaxBody == 3      \* drawing commands after the MoveTo of a generated subpath
MaxSubpaths == 2  \* subpaths of a generated multi-subpath path
MaxDensity == 2   \* SVGtoWKT.DENSITY ranges over 1..MaxDensity
MaxLen == 6       \* curve lengths of the sampling calls, in quarters, 0..MaxLen
MaxEls == 2       \* elements of a generated document
MaxCalls == 2     \* convert calls in one behaviour

\* ----------------------------------------------------------------- state
VARIABLES
  DENSITY,   \* SVGtoWKT.DENSITY, the public sampling density
  op,        \* the API function last called ("idle" before any call)
  arg,       \* its argument
  ret,       \* what it returned or threw
  body,      \* document.body: the node names of its children
  globals    \* properties of the global object written by the code

vars == <<DENSITY, op, arg, ret, body, globals>>

\* ------------------------------------------------------ program constants
PRECISION == 3

RECURSIVE Pow10(_)
Pow10(n) == IF n = 0 THEN 1 ELSE 10 * Pow10(n - 1)

\* Math.pow(10, SVGtoWKT.PRECISION): also the number of model units in 1.
root == Pow10(PRECISION)

Abs(n) == IF n < 0 THEN -n ELSE n

\* The element of a singleton.  {e(v) : v \in {x}} is written where e uses x
\* more than once, so that x is computed once: The({e(v) : v \in {x}}).
The(S) == CHOOSE v \in S : TRUE

\* ------------------------------------------------------------------ text
RECURSIVE Digits(_, _)
Digits(f, w) == IF w = 0 THEN "" ELSE Digits(f \div 10, w - 1) \o ToString(f % 10)

RECURSIVE FracDigits(_, _)
FracDigits(f, w) == IF f % 10 = 0 THEN FracDigits(f \div 10, w - 1) ELSE Digits(f, w)

\* String(n) / `${n}` of a finite number n held as u units: shortest decimal,
\* no trailing zeros, and "0" for both zeros.
NumStr(u) ==
  LET a == Abs(u)
      ip == a \div root
      fp == a % root
  IN (IF u < 0 THEN "-" ELSE "") \o ToString(ip)
       \o (IF fp = 0 THEN "" ELSE "." \o FracDigits(fp, PRECISION))

\* Array.prototype.join with separator tokens sep over a list of token lists.
RECURSIVE JoinFrom(_, _, _)
JoinFrom(parts, sep, i) ==
  IF i > Len(parts) THEN <<>>
  ELSE IF i = Len(parts) THEN parts[i]
  ELSE parts[i] \o sep \o JoinFrom(parts, sep, i + 1)

Join(parts, sep) == The({JoinFrom(p, sep, 1) : p \in {parts}})

RECURSIVE TextFrom(_, _)
TextFrom(toks, i) == IF i > Len(toks) THEN "" ELSE toks[i] \o TextFrom(toks, i + 1)

Text(toks) == The({TextFrom(t, 1) : t \in {toks}})

Comma == <<",">>

\* ------------------------------------------------------------ __round
\* A real number is a fraction [num, den] of units.  Math.round is
\* floor(v + 1/2); val * root is the count of units and the division by root
\* brings the result back to a number held in units.
Frac(n, d) == [num |-> n, den |-> d]

MathRound(r) == (2 * r.num + r.den) \div (2 * r.den)

__round(val) == MathRound(val)

\* --------------------------------------------------------------- points
Pt(x, y) == [x |-> x, y |-> y]

__ptFromValues(values) == Pt(values[Len(values) - 1], values[Len(values)])

PtToks(p) == <<NumStr(p.x), " ", NumStr(-p.y)>>

__lineString(points) ==
  <<"(">> \o Join([i \in 1..Len(points) |-> PtToks(points[i])], Comma) \o <<")">>

__circularString(startPt, midPt, endPt) ==
  <<"CIRCULARSTRING", "(">> \o PtToks(startPt) \o <<",", " ">> \o PtToks(midPt)
    \o <<",", " ">> \o PtToks(endPt) \o <<")">>

\* ------------------------------------------------------ geometry engine
\* The mock element of __curveString is "M lastPt <type> <values>".
IsCircular(step) == step.type = "A" /\ step.values[1] = step.values[2]

IsStraight(step) ==
  \/ step.type # "A"
  \/ step.values[1] = 0
  \/ step.values[2] = 0

Chord(s, e) == Abs(e.x - s.x) + Abs(e.y - s.y)

\* Math.PI, in units.
MathPI == 3142

\* SVGGeometryElement.getTotalLength(), in units.
getTotalLength(s, step) ==
  LET e == __ptFromValues(step.values)
  IN IF IsStraight(step) THEN Chord(s, e)
     ELSE (MathPI * Chord(s, e)) \div 2000

\* SVGGeometryElement.getPointAtLength(distance).  distance is a fraction of
\* units whose denominator is 0 when the JavaScript value is NaN or Infinity:
\* the WebIDL float conversion then throws a TypeError.
getPointAtLength(s, step, dist) ==
  LET e == __ptFromValues(step.values)
      len == getTotalLength(s, step)
  IN IF dist.den = 0 THEN [threw |-> TRUE, x |-> Frac(0, 1), y |-> Frac(0, 1)]
     ELSE IF len = 0 THEN [threw |-> FALSE, x |-> Frac(s.x, 1), y |-> Frac(s.y, 1)]
     ELSE IF IsStraight(step)
       THEN [threw |-> FALSE,
             x |-> Frac(s.x * dist.den * len + (e.x - s.x) * dist.num, dist.den * len),
             y |-> Frac(s.y * dist.den * len + (e.y - s.y) * dist.num, dist.den * len)]
     ELSE \* semicircle, sweep flag 1: only its midpoint is ever asked for
       CASE 2 * dist.num = dist.den * len ->
            [threw |-> FALSE,
             x |-> Frac((s.x + e.x) + (e.y - s.y), 2),
             y |-> Frac((s.y + e.y) - (e.x - s.x), 2)]

\* The number a DOMPoint coordinate holds, in units.
Value(r) == r.num \div r.den

\* -------------------------------------------------- __interpolatedPoints
\* path is the mock element [s, step].  _(count + 1).times calls the sampler
\* for i = 0..count; a throwing sample aborts the call.
__interpolatedPoints(path) ==
  LET length == getTotalLength(path.s, path.step)
      count == MathRound(Frac(length * DENSITY, root))
      sampled == [i \in 0..count |->
                   getPointAtLength(path.s, path.step, Frac(length * i, count))]
  IN The({[threw |-> \E i \in 0..count : point[i].threw,
           pts |-> [k \in 1..(count + 1) |->
                     Pt(__round(point[k - 1].x), __round(point[k - 1].y))]]
          : point \in {sampled}})

\* ---------------------------------------------------------- __curveString
SamePt(p, q) == p.x = q.x /\ p.y = q.y

\* Lines 472-478: executed after every step that does not `continue`.
Advance(st, step) ==
  LET lp == IF Len(step.values) >= 2 THEN __ptFromValues(step.values) ELSE st.lastPt
  IN [st EXCEPT !.lastPt = lp,
                !.firstPt = IF st.firstPt = <<>> THEN <<lp>> ELSE st.firstPt]

StepL(st, step) ==
  LET seeded == IF Len(st.linePts) = 0 THEN <<st.lastPt>> ELSE st.linePts
  IN Advance([st EXCEPT !.linePts = Append(seeded, __ptFromValues(step.values))], step)

\* StepZ appending the first point whether or not the ring is back on it.
StepZ_AlwaysCloses(st) ==
  IF st.firstPt # <<>>
    THEN [st EXCEPT !.linePts = Append(st.linePts, st.firstPt[1])]
    ELSE st

\* Lines 443-448.
StepZ(st) ==
  IF st.firstPt # <<>> /\ ~SamePt(st.firstPt[1], st.lastPt)
    THEN [st EXCEPT !.linePts = Append(st.linePts, st.firstPt[1])]
    ELSE st

StepCircular(st, step) ==
  LET flushed == IF Len(st.linePts) > 0
                   THEN Append(st.geometries, __lineString(st.linePts))
                   ELSE st.geometries
      length == getTotalLength(st.lastPt, step)
      endPoint == __ptFromValues(step.values)
  IN The({Advance([st EXCEPT !.linePts = <<>>,
                             !.geometries = Append(flushed,
                                 __circularString(st.lastPt, Pt(Value(mid.x), Value(mid.y)),
                                                  endPoint))], step)
          : mid \in {getPointAtLength(st.lastPt, step, Frac(length, 2))}})

StepCurve(st, step) ==
  The({IF shape.threw THEN [st EXCEPT !.threw = TRUE]
       ELSE Advance([st EXCEPT !.linePts = st.linePts \o shape.pts], step)
       : shape \in {__interpolatedPoints([s |-> st.lastPt, step |-> step])}})

Step(st, step) ==
  CASE step.type = "M" -> Advance(st, step)
    [] step.type = "L" -> StepL(st, step)
    [] step.type = "Z" -> StepZ(st)
    [] OTHER -> IF IsCircular(step) THEN StepCircular(st, step) ELSE StepCurve(st, step)

\* The loop of lines 432-479 from step i on; a throw leaves the loop.
RECURSIVE Walk(_, _, _)
Walk(st, curves, i) ==
  IF i > Len(curves) \/ st.threw THEN st
  ELSE The({Walk(next, curves, i + 1) : next \in {Step(st, curves[i])}})

\* Lines 481-487.
Finish(st) ==
  LET geometries == IF Len(st.linePts) > 1
                      THEN Append(st.geometries, __lineString(st.linePts))
                      ELSE st.geometries
  IN [threw |-> st.threw,
      text |-> IF Len(geometries) > 0 THEN Join(geometries, Comma) ELSE <<" ", "EMPTY">>]

\* The result is [threw, text]: text is the returned string.
__curveString(curves) ==
  The({Finish(Walk([linePts |-> <<>>, geometries |-> <<>>, firstPt |-> <<>>,
                    lastPt |-> Pt(0, 0), threw |-> FALSE], c, 1)) : c \in {curves}})

\* ------------------------------------------------------------ SVGtoWKT.path
Cmd(t, v) == [type |-> t, values |-> v]

HasType(cmds, t) == \E i \in DOMAIN cmds : cmds[i].type = t

\* A numeral the pattern \d+ matches: unsigned, no decimal point.
IsDigits(u) == u >= 0 /\ u % root = 0

\* d.replace(arcFix, '$1L$2'): d is the list of commands as written; an A
\* written with more than its 7 parameters, all digit runs, gets an L put
\* before the 8th.
RECURSIVE ArcFix(_)
ArcFix(d) ==
  IF Len(d) = 0 THEN <<>>
  ELSE LET c == Head(d)
       IN IF c.type = "A" /\ Len(c.values) > 7
               /\ \A i \in 1..8 : IsDigits(c.values[i])
            THEN <<Cmd("A", SubSeq(c.values, 1, 7)),
                   Cmd("L", SubSeq(c.values, 8, Len(c.values)))>> \o ArcFix(Tail(d))
            ELSE <<c>> \o ArcFix(Tail(d))

\* d.trim().match(/[^z|Z]+[z|Z]/g): the pieces that end in a close-path;
\* a close-path with nothing before it matches nothing, and what follows the
\* last close-path is dropped.
RECURSIVE Rings(_, _)
Rings(d, cur) ==
  IF Len(d) = 0 THEN <<>>
  ELSE IF Head(d).type = "Z"
    THEN (IF Len(cur) = 0 THEN <<>> ELSE <<Append(cur, Head(d))>>) \o Rings(Tail(d), <<>>)
    ELSE Rings(Tail(d), Append(cur, Head(d)))

\* __pathElement(p).getPathData(): path data that does not begin with a
\* MoveTo is in error and yields no command; an arc written with more than
\* 7 parameters is in error after its 7th and ends the data there.
RECURSIVE Parse(_)
Parse(d) ==
  IF Len(d) = 0 THEN <<>>
  ELSE LET c == Head(d)
       IN IF c.type = "A" /\ Len(c.values) > 7
            THEN <<Cmd("A", SubSeq(c.values, 1, 7))>>
            ELSE <<c>> \o Parse(Tail(d))

getPathData(d) == IF Len(d) = 0 \/ Head(d).type # "M" THEN <<>> ELSE Parse(d)

Wrap(kw, toks) == <<kw, "(">> \o toks \o <<")">>

\* Lines 357-363: one ring's part.
RingPart(poly) ==
  The({[threw |-> curve.threw,
        text |-> IF HasType(poly, "A")
                      /\ \E i \in DOMAIN poly : poly[i].type \notin {"M", "A", "Z"}
                   THEN Wrap("COMPOUNDCURVE", curve.text)
                   ELSE curve.text]
       : curve \in {__curveString(poly)}})

Thrown == [threw |-> TRUE, text |-> <<>>, gpath |-> <<>>]

Returned(toks, g) == [threw |-> FALSE, text |-> toks, gpath |-> g]

\* ClosedPath with the ring-size guard ahead of the arc test.
ClosedPath_GuardFirst(polys) ==
  The({IF \E i \in DOMAIN polys : parts[i].threw THEN Thrown
       ELSE IF \E i \in DOMAIN polys : Len(polys[i]) < 5
         THEN Returned(<<"LINESTRING", " ", "EMPTY">>, <<>>)
       ELSE IF \E i \in DOMAIN polys : HasType(polys[i], "A")
         THEN Returned(Wrap("CURVEPOLYGON",
                            Join([i \in DOMAIN polys |-> parts[i].text], Comma)), <<>>)
       ELSE Returned(Wrap("POLYGON",
                          Join([i \in DOMAIN polys |-> parts[i].text], Comma)), <<>>)
       : parts \in {[i \in DOMAIN polys |-> RingPart(polys[i])]}})

\* Lines 354-374.
ClosedPath(polys) ==
  The({IF \E i \in DOMAIN polys : parts[i].threw THEN Thrown
       ELSE IF \E i \in DOMAIN polys : HasType(polys[i], "A")
         THEN Returned(Wrap("CURVEPOLYGON",
                            Join([i \in DOMAIN polys |-> parts[i].text], Comma)), <<>>)
       ELSE IF \E i \in DOMAIN polys : Len(polys[i]) < 5
         THEN Returned(<<"LINESTRING", " ", "EMPTY">>, <<>>)
       ELSE Returned(Wrap("POLYGON",
                          Join([i \in DOMAIN polys |-> parts[i].text], Comma)), <<>>)
       : parts \in {[i \in DOMAIN polys |-> RingPart(polys[i])]}})

\* Lines 383-389: a new group at every MoveTo.
RECURSIVE CurveGroups(_, _)
CurveGroups(data, groups) ==
  IF Len(data) = 0 THEN groups
  ELSE LET pushed == IF Head(data).type = "M"
                       THEN Append(groups, <<Head(data)>>)
                       ELSE [groups EXCEPT ![Len(groups)] = Append(@, Head(data))]
       IN The({CurveGroups(Tail(data), g) : g \in {pushed}})

\* Lines 377-409.  `path`, the loop variable of line 404, is not declared:
\* each iteration assigns the property `path` of the global object.
Emit(multiLines, compoundCurves, lines, curves) ==
  LET linear == IF Len(multiLines) > 1
                  THEN <<Wrap("MULTILINESTRING",
                              Join([i \in DOMAIN lines |-> lines[i].text], Comma))>>
                ELSE IF Len(multiLines) > 0
                  THEN <<(<<"LINESTRING">> \o lines[1].text)>>
                ELSE <<>>
      geometry == linear \o
                    [i \in DOMAIN curves |-> Wrap("COMPOUNDCURVE", curves[i].text)]
      bad == {i \in DOMAIN curves : curves[i].threw}
      lastRun == IF bad = {} THEN Len(compoundCurves)
                 ELSE CHOOSE i \in bad : \A j \in bad : i <= j
  IN IF \E i \in DOMAIN lines : lines[i].threw THEN Thrown
     ELSE IF bad # {} THEN [Thrown EXCEPT !.gpath = <<compoundCurves[lastRun]>>]
     ELSE Returned(Join(geometry, Comma),
                   IF lastRun = 0 THEN <<>> ELSE <<compoundCurves[lastRun]>>)

OpenPath(data) ==
  The({The({The({Emit(multiLines, compoundCurves, lines, curves)
                 : lines \in {[i \in DOMAIN multiLines |->
                                __curveString(multiLines[i])]},
                   curves \in {[i \in DOMAIN compoundCurves |->
                                 __curveString(compoundCurves[i])]}})
            : multiLines \in {SelectSeq(curveGroups, LAMBDA g : ~HasType(g, "A"))},
              compoundCurves \in {SelectSeq(curveGroups, LAMBDA g : HasType(g, "A"))}})
       : curveGroups \in {CurveGroups(data, <<>>)}})

\* The result is [threw, text, gpath]: the returned string, or a thrown
\* TypeError, and the value the call leaves in the global `path` (<<>>: none).
path(d) ==
  The({The({IF Len(polys) > 0 THEN ClosedPath(polys) ELSE OpenPath(getPathData(fixed))
            : polys \in {[i \in DOMAIN rings |-> getPathData(rings[i])]}})
       : fixed \in {ArcFix(d)}, rings \in {Rings(ArcFix(d), <<>>)}})

\* ------------------------------------------------------ JavaScript values
JNum(v) == [t |-> "num", v |-> v]

JNaN == [t |-> "NaN", v |-> 0]

JUndef == [t |-> "undefined", v |-> 0]

\* _.isNumber: the class test of underscore, true of NaN as of any number.
isNumber(a) == a.t \in {"num", "NaN"}

JAdd(a, b) == IF a.t = "num" /\ b.t = "num" THEN JNum(a.v + b.v) ELSE JNaN

JNeg(a) == IF a.t = "num" THEN JNum(-a.v) ELSE JNaN

JSub(a, b) == JAdd(a, JNeg(b))

\* String(a), and a in a concatenation or a template.
JStr(a) == IF a.t = "num" THEN NumStr(a.v) ELSE a.t

\* The numerals attribute values are written with.
Literals == {k * (root \div 2) : k \in -20..20} \cup {root \div 10}

\* Number(s) for a string s: "" is 0, a numeral its value, anything else NaN.
ToNumber(s) ==
  LET hits == {u \in Literals : NumStr(u) = s}
  IN IF s = "" THEN JNum(0)
     ELSE IF hits = {} THEN JNaN ELSE JNum(CHOOSE u \in hits : TRUE)

\* parseFloat(a) of an attribute value a: <<>> is undefined (no such
\* attribute), <<s>> the string s.
parseFloat(a) == IF Len(a) = 0 \/ a[1] = "" THEN JNaN ELSE ToNumber(a[1])

\* ----------------------------------------------------------- SVGtoWKT.line
line(x1, y1, x2, y2) ==
  <<"LINESTRING", "(", JStr(x1), " ", JStr(JNeg(y1)), ",",
    JStr(x2), " ", JStr(JNeg(y2)), ")">>

\* ------------------------------------------- SVGtoWKT.polyline / polygon
\* A points attribute is the list of its tokens: numerals, "," and " ".
RECURSIVE Split(_, _, _)
Split(toks, sep, cur) ==
  IF Len(toks) = 0 THEN <<cur>>
  ELSE IF Head(toks) = sep THEN <<cur>> \o Split(Tail(toks), sep, <<>>)
  ELSE Split(Tail(toks), sep, Append(cur, Head(toks)))

RECURSIVE Trim(_)
Trim(toks) ==
  IF Len(toks) > 0 /\ Head(toks) = " " THEN Trim(Tail(toks))
  ELSE IF Len(toks) > 0 /\ toks[Len(toks)] = " " THEN Trim(SubSeq(toks, 1, Len(toks) - 1))
  ELSE toks

\* pt = pt.split(','); pt[1] = -pt[1]; pt.join(' '): the pieces between
\* commas, the second replaced by its negation as a number.
FlipPair(pt) ==
  LET fields == Split(pt, ",", <<>>)
      str(i) == Text(fields[i])
      second == IF Len(fields) >= 2 THEN JNeg(ToNumber(str(2))) ELSE JNaN
      n == IF Len(fields) >= 2 THEN Len(fields) ELSE 2
  IN Join([i \in 1..n |-> IF i = 2 THEN <<JStr(second)>> ELSE <<str(i)>>], <<" ">>)

PointPairs(points) ==
  LET pairs == Split(Trim(points), " ", <<>>)
  IN [i \in DOMAIN pairs |-> FlipPair(pairs[i])]

polyline(points) == Wrap("LINESTRING", Join(PointPairs(points), Comma))

polygon(points) ==
  LET pts == PointPairs(points)
  IN <<"POLYGON", "(", "(">> \o Join(Append(pts, pts[1]), Comma) \o <<")", ")">>

\* ----------------------------------------------------------- SVGtoWKT.rect
rect(x, y, width, height) ==
  LET x0 == IF ~isNumber(x) THEN JNum(0) ELSE x
      y0 == IF ~isNumber(y) THEN JNum(0) ELSE y
      pts == << <<JStr(x0), " ", JStr(JNeg(y0))>>,
                <<JStr(JAdd(x0, width)), " ", JStr(JNeg(y0))>>,
                <<JStr(JAdd(x0, width)), " ", JStr(JSub(JNeg(y0), height))>>,
                <<JStr(x0), " ", JStr(JSub(JNeg(y0), height))>>,
                <<JStr(x0), " ", JStr(JNeg(y0))>> >>
  IN <<"POLYGON", "(", "(">> \o Join(pts, Comma) \o <<")", ")">>

\* --------------------------------------------------------- SVGtoWKT.circle
JScale(a, k) == IF a.t = "num" THEN JNum(a.v * k) ELSE JNaN

JRound(a) == IF a.t = "num" THEN JNum(__round(Frac(a.v, 1))) ELSE JNaN

\* Math.cos / Math.sin of an angle in degrees, for the quarter turns; the
\* floating-point error of the library at these angles is far below the
\* rounding step of __round.
CosDeg(a) == CASE a % 360 = 0 -> 1 [] a % 360 = 90 -> 0
               [] a % 360 = 180 -> -1 [] a % 360 = 270 -> 0

SinDeg(a) == CosDeg(a + 270)

circle(cx, cy, r) ==
  LET pts == [k \in 1..5 |->
               LET angle == 90 * (k - 1)
                   x == JRound(JAdd(cx, JScale(r, CosDeg(angle))))
                   y == JRound(JAdd(cy, JScale(r, SinDeg(angle))))
               IN <<JStr(x), " ", JStr(JNeg(y))>>]
  IN Wrap("CIRCULARSTRING", Join(pts, Comma))

\* -------------------------------------------------------- SVGtoWKT.ellipse
RECURSIVE SqrtIn(_, _, _)
SqrtIn(lo, hi, v) ==
  IF lo = hi THEN lo
  ELSE The({IF mid * mid <= v THEN SqrtIn(mid, hi, v) ELSE SqrtIn(lo, mid - 1, v)
            : mid \in {(lo + hi + 1) \div 2}})

\* Math.sqrt, to the unit.
MathSqrt(v) == SqrtIn(0, v + 1, v)

\* Called with numbers; the angles are whole quarter turns for the point
\* counts 1, 2 and 4 the model draws.  pts[0] of an empty list is undefined,
\* which join() writes as the empty string.
ellipse(cx, cy, rx, ry) ==
  LET mean == MathSqrt((rx.v * rx.v + ry.v * ry.v) \div 2)
      point_count == MathRound(Frac(2 * MathPI * mean * DENSITY, root * root))
      pts == [k \in 1..point_count |->
               LET angle == (360 \div point_count) * (k - 1)
                   x == JRound(JAdd(cx, JScale(rx, CosDeg(angle))))
                   y == JRound(JAdd(cy, JScale(ry, SinDeg(angle))))
               IN <<JStr(x), " ", JStr(JNeg(y))>>]
      closed == Append(pts, IF point_count = 0 THEN <<>> ELSE pts[1])
  IN <<"POLYGON", "(", "(">> \o Join(closed, Comma) \o <<")", ")">>

\* -------------------------------------------------------------- __createWKT
\* An element is [nodeName, attrs, ...]; $element.attr(name) is <<>> when
\* the attribute is absent and <<value>> otherwise.
Attr(element, name) ==
  IF name \in DOMAIN element.attrs THEN <<element.attrs[name]>> ELSE <<>>

\* The result is [threw, text, gpath] as for path: a builder handed
\* undefined for its string argument throws a TypeError.
__createWKT(element) ==
  LET num(name) == parseFloat(Attr(element, name))
      str(name) == Attr(element, name)
  IN CASE element.nodeName = "polygon" ->
            IF Len(str("points")) = 0 THEN Thrown
            ELSE Returned(polygon(str("points")[1]), <<>>)
       [] element.nodeName = "polyline" ->
            IF Len(str("points")) = 0 THEN Thrown
            ELSE Returned(polyline(str("points")[1]), <<>>)
       [] element.nodeName = "line" ->
            Returned(line(num("x1"), num("y1"), num("x2"), num("y2")), <<>>)
       [] element.nodeName = "rect" ->
            Returned(rect(num("x"), num("y"), num("width"), num("height")), <<>>)
       [] element.nodeName = "circle" ->
            Returned(circle(num("cx"), num("cy"), num("r")), <<>>)
       [] element.nodeName = "ellipse" ->
            Returned(ellipse(num("cx"), num("cy"), num("rx"), num("ry")), <<>>)
       [] element.nodeName = "path" ->
            IF Len(str("d")) = 0 THEN Thrown ELSE path(str("d")[1])
       [] OTHER -> Returned(<<"EMPTY">>, <<>>)

\* ----------------------------------------------------------------- __getText
\* A JSON object is the list of its properties [key, defined, value]; every
\* value is a token list.  A text element carries what the host reports:
\* its character count and, in the root's coordinates, the start of its
\* first character and the end of its last.
Prop(k, v) == [key |-> k, defined |-> TRUE, value |-> v]

Undefined(k) == [key |-> k, defined |-> FALSE, value |-> <<>>]

__getText(element, svg) ==
  LET len == element.chars
      start == element.start
      end == element.end
      size == Attr(element, "font-size")
      font == Attr(element, "font-family")
  IN IF len = 0 THEN <<>>
     ELSE << <<Prop("text", <<element.text>>),
               Prop("path", <<"LINESTRING", "(", NumStr(start.x), " ", NumStr(-start.y),
                              ",", " ", NumStr(end.x), " ", NumStr(-end.y), ")">>)>>
             \o (IF Len(size) > 0 /\ size[1] # "" THEN <<Prop("fontSize", size)>> ELSE <<>>)
             \o (IF Len(font) > 0 /\ font[1] # "" THEN <<Prop("fontFamily", font)>> ELSE <<>>) >>

\* ---------------------------------------------------------- SVGtoWKT.convert
Tags == <<"polygon", "polyline", "line", "rect", "circle", "ellipse", "path">>

\* getElementsByTagName: the descendants of that name, in document order.
getElementsByTagName(els, tagName) == SelectSeq(els, LAMBDA e : e.nodeName = tagName)

\* Shapes collecting the elements of every name in one pass of the document.
Shapes_DocumentOrder(els, k) ==
  SelectSeq(els, LAMBDA e : \E j \in k..Len(Tags) : Tags[j] = e.nodeName)

\* Lines 49-54: for each tag name in turn, the elements of that name.
RECURSIVE Shapes(_, _)
Shapes(els, k) ==
  IF k > Len(Tags) THEN <<>>
  ELSE getElementsByTagName(els, Tags[k]) \o Shapes(els, k + 1)

\* querySelectorAll('[id]').
WithId(els) == SelectSeq(els, LAMBDA e : "id" \in DOMAIN e.attrs)

RECURSIVE Flatten(_)
Flatten(ss) == IF Len(ss) = 0 THEN <<>> ELSE Head(ss) \o Flatten(Tail(ss))

\* JSON.stringify leaves out the properties whose value is undefined.
Stringify(response) ==
  [detail |-> response.detail,
   spaces |-> [i \in DOMAIN response.spaces |->
                SelectSeq(response.spaces[i], LAMBDA q : q.defined)],
   strings |-> response.strings]

\* svg is [blank, els]: blank for undefined or whitespace-only markup, els
\* the elements below the root, in document order.  The result is
\* [threw, value, appended, response, gpath]: the returned string (as the
\* object it serialises) or the throw, whether the root was appended to
\* document.body, and what the call assigns to the undeclared `response`
\* (line 75) and `path` (line 404), <<>> when it assigns nothing.
\* Lines 56-81, with made the results of the __createWKT calls of lines 51
\* and 64 in the order they are made.
Respond(svgRoot, shapes, ids, texts, made) ==
  LET bad == {i \in DOMAIN made : made[i].threw}
      ran == IF bad = {} THEN Len(made) ELSE CHOOSE i \in bad : \A j \in bad : i <= j
      assigned == {i \in 1..ran : Len(made[i].gpath) > 0}
      gpath == IF assigned = {} THEN <<>>
               ELSE made[CHOOSE i \in assigned : \A j \in assigned : j <= i].gpath
      spaces == [i \in DOMAIN ids |->
                  <<Prop("id", Attr(ids[i], "id")),
                    IF "title" \in DOMAIN ids[i].attrs
                      THEN Prop("title", Attr(ids[i], "title")) ELSE Undefined("title"),
                    Prop("space", made[Len(shapes) + i].text)>>]
      strings == Flatten([i \in DOMAIN texts |-> __getText(texts[i], svgRoot)])
      response == [detail |-> Wrap("GEOMETRYCOLLECTION",
                                   Join([i \in DOMAIN shapes |-> made[i].text], Comma)),
                   spaces |-> spaces,
                   strings |-> strings]
  IN IF bad # {}
       THEN [threw |-> TRUE, value |-> <<>>, appended |-> TRUE,
             response |-> <<>>, gpath |-> gpath]
     ELSE [threw |-> FALSE, value |-> <<Stringify(response)>>, appended |-> TRUE,
           response |-> <<response>>, gpath |-> gpath]

convert(svg) ==
  IF svg.blank
    THEN [threw |-> TRUE, value |-> <<>>, appended |-> FALSE,
          response |-> <<>>, gpath |-> <<>>]
  ELSE The({The({Respond(svg.els, shapes, ids, texts, made)
                 : made \in {[i \in DOMAIN (shapes \o ids) |->
                               __createWKT((shapes \o ids)[i])]}})
            : shapes \in {Shapes(svg.els, 1)}, ids \in {WithId(svg.els)},
              texts \in {getElementsByTagName(svg.els, "text")}})

\* ------------------------------------------------------------------ inputs
U(n) == n * root

P0 == Pt(U(0), U(0))

P1 == Pt(U(2), U(0))

MoveTo(p) == Cmd("M", <<p.x, p.y>>)

LineTo(p) == Cmd("L", <<p.x, p.y>>)

\* A circular arc, sweep flag 1, radii 0.001: scaled up by the host to half
\* the chord, a semicircle.
CircularArc(p) == Cmd("A", <<1, 1, 0, 0, 1, p.x, p.y>>)

\* An elliptical arc with rx = 0: a straight segment.
FlatArc(p) == Cmd("A", <<0, 1, 0, 0, 1, p.x, p.y>>)

\* A cubic Bezier with both control points on its end point: a straight
\* segment.
CurveTo(p) == Cmd("C", <<p.x, p.y, p.x, p.y, p.x, p.y>>)

ClosePath == Cmd("Z", <<>>)

\* Drawing commands of a single generated subpath.
Drawing ==
  {LineTo(P0), LineTo(P1), CircularArc(P0), CircularArc(P1),
   CurveTo(P0), CurveTo(P1), FlatArc(P1), MoveTo(P1)}

\* One subpath from P0, closed or open, of up to MaxBody drawing commands.
SinglePaths ==
  {<<MoveTo(P0)>> \o b \o z :
     b \in UNION {[1..k -> Drawing] : k \in 0..MaxBody},
     z \in {<<>>, <<ClosePath>>}}

\* Two to MaxSubpaths subpaths of lines and circular arcs, all closed or
\* all open.
Bodies == UNION {[1..k -> {LineTo(P1), CircularArc(P1)}] : k \in 0..MaxBody}

MultiPaths ==
  {Flatten([i \in DOMAIN bs |-> <<MoveTo(P0)>> \o bs[i] \o z]) :
     bs \in UNION {[1..n -> Bodies] : n \in 2..MaxSubpaths},
     z \in {<<>>, <<ClosePath>>}}

\* The outline of the rectangle (x, y, w, h) as a closed path.
RectPath(x, y, w, h) ==
  <<MoveTo(Pt(x, y)), LineTo(Pt(x + w, y)), LineTo(Pt(x + w, y + h)),
    LineTo(Pt(x, y + h)), ClosePath>>

Sides == {U(0), U(10)}

RectPaths == {RectPath(x, y, w, h) : x \in Sides, y \in Sides, w \in Sides, h \in Sides}

\* An arc written with a coordinate pair after its 7 parameters, with a
\* whole and with a fractional radius.
RunOnArcs ==
  {<<MoveTo(P0), Cmd("A", <<r, r, 0, 0, U(1), U(10), 0, U(20), U(20)>>)>> \o z :
     r \in {U(5), U(5) + root \div 2}, z \in {<<>>, <<ClosePath>>}}

\* A triangle, closed by its close-path.
TrianglePaths ==
  {<<MoveTo(Pt(U(0), U(0))), LineTo(Pt(U(10), U(0))), LineTo(Pt(U(10), U(10)))>> \o z :
     z \in {<<>>, <<ClosePath>>}}

PathInputs == SinglePaths \cup MultiPaths \cup RectPaths \cup TrianglePaths \cup RunOnArcs

Numbers == {JNum(U(0)), JNum(U(10)), JNaN, JUndef}

Element(name, attrs) ==
  [nodeName |-> name, attrs |-> attrs, text |-> "", chars |-> 0,
   start |-> P0, end |-> P0]

TextElement(text, chars, start, end, attrs) ==
  [nodeName |-> "text", attrs |-> attrs, text |-> text, chars |-> chars,
   start |-> start, end |-> end]

\* The elements documents are made of.
Catalogue ==
  << Element("polygon", [points |-> <<"0", ",", "0", " ", "10", ",", "0", " ",
                                      "10", ",", "10">>]),
     Element("polyline", [points |-> <<"1", ",", "2", " ", "3", ",", "4">>,
                          id |-> "wall", title |-> "Wall"]),
     Element("line", [x1 |-> "0", y1 |-> "0", x2 |-> "10", y2 |-> "10"]),
     Element("rect", [x |-> "0", y |-> "0", width |-> "10", height |-> "10",
                      id |-> "room"]),
     Element("rect", [width |-> "10", height |-> "10"]),
     Element("circle", [cx |-> "0", cy |-> "0", r |-> "5"]),
     Element("ellipse", [cx |-> "5", cy |-> "5", rx |-> "0.1", ry |-> "0.1"]),
     Element("path", [d |-> RectPath(U(0), U(0), U(10), U(10))]),
     Element("path", [d |-> <<MoveTo(P0), CircularArc(P1)>>, id |-> "arc"]),
     Element("path", [d |-> <<MoveTo(P0), CurveTo(P0)>>]),
     TextElement("Hi", 2, Pt(U(1), U(1)), Pt(U(3), U(1)),
                 ("font-size" :> "12") @@ [id |-> "label"]),
     TextElement("", 0, P0, P0, [id |-> "blank"]),
     Element("g", [id |-> "group", title |-> "Group"]) >>

\* Further rectangles for the dispatcher alone.
Probes ==
  << Element("rect", [y |-> "10", width |-> "10", height |-> "10"]),
     Element("rect", [x |-> "10", width |-> "10", height |-> "10"]),
     Element("rect", [x |-> "abc", y |-> "10", width |-> "10", height |-> "10"]),
     Element("polygon", [id |-> "nopoints"]) >>

\* Documents: up to MaxEls elements of the catalogue under the root.
Documents ==
  {[blank |-> FALSE, els |-> [i \in DOMAIN idx |-> Catalogue[idx[i]]]] :
     idx \in UNION {[1..n -> 1..Len(Catalogue)] : n \in 0..MaxEls}}

\* Documents of at most one element, for the calls after the first.
ShortDocuments ==
  {[blank |-> FALSE, els |-> <<>>]}
    \cup {[blank |-> FALSE, els |-> <<Catalogue[i]>>] : i \in 1..Len(Catalogue)}

Blank == [blank |-> TRUE, els |-> <<>>]

\* ------------------------------------------------------------------ actions
NoGlobals == [response |-> <<>>, path |-> <<>>]

Init ==
  /\ DENSITY = 1
  /\ op = "idle"
  /\ arg = <<>>
  /\ ret = <<>>
  /\ body = <<>>
  /\ globals = NoGlobals

\* The caller sets the public SVGtoWKT.DENSITY before calling.
SetDensity ==
  /\ op = "idle"
  /\ \E n \in 1..MaxDensity : n # DENSITY /\ DENSITY' = n
  /\ UNCHANGED <<op, arg, ret, body, globals>>

Assign(old, new) == IF Len(new) > 0 THEN new ELSE old

CallPath ==
  /\ op = "idle"
  /\ \E d \in PathInputs :
       \E r \in {path(d)} :
         /\ op' = "path"
         /\ arg' = d
         /\ ret' = r
         /\ globals' = [globals EXCEPT !.path = Assign(@, r.gpath)]
  /\ UNCHANGED <<DENSITY, body>>

CallRect ==
  /\ op = "idle"
  /\ \E x \in Numbers, y \in Numbers, width \in {JNum(U(0)), JNum(U(10))},
        height \in {JNum(U(0)), JNum(U(10))} :
       /\ op' = "rect"
       /\ arg' = <<x, y, width, height>>
       /\ ret' = rect(x, y, width, height)
  /\ UNCHANGED <<DENSITY, body, globals>>

CallCreateWKT ==
  /\ op = "idle"
  /\ \E i \in 1..(Len(Catalogue) + Len(Probes)) :
       \E r \in {__createWKT((Catalogue \o Probes)[i])} :
         /\ op' = "__createWKT"
         /\ arg' = (Catalogue \o Probes)[i]
         /\ ret' = r
         /\ globals' = [globals EXCEPT !.path = Assign(@, r.gpath)]
  /\ UNCHANGED <<DENSITY, body>>

\* The mock element of a curve from P0 of length k quarters.
CallInterpolatedPoints ==
  /\ op = "idle"
  /\ \E k \in 0..MaxLen, step \in {"C", "A"} :
       LET end == Pt(k * (root \div 4), 0)
           mock == [s |-> P0, step |-> IF step = "C" THEN CurveTo(end) ELSE FlatArc(end)]
       IN /\ op' = "__interpolatedPoints"
          /\ arg' = mock
          /\ ret' = __interpolatedPoints(mock)
  /\ UNCHANGED <<DENSITY, body, globals>>

Next == SetDensity \/ CallPath \/ CallRect \/ CallCreateWKT \/ CallInterpolatedPoints

Spec == Init /\ [][Next]_vars

\* Calls of convert, one after another: a first call with any document,
\* then calls with short ones.  A call that passes the parse appends its
\* root to document.body before anything else can throw.
Convert ==
  /\ op \in {"idle", "convert"}
  /\ Len(body) < MaxCalls
  /\ \E svg \in (IF op = "idle" THEN Documents ELSE ShortDocuments) \cup {Blank} :
       \E r \in {convert(svg)} :
         /\ op' = "convert"
         /\ arg' = svg
         /\ ret' = [threw |-> r.threw, value |-> r.value]
         /\ body' = IF r.appended THEN Append(body, "svg") ELSE body
         /\ globals' = [response |-> Assign(globals.response, r.response),
                        path |-> Assign(globals.path, r.gpath)]
  /\ UNCHANGED DENSITY

NextConvert == SetDensity \/ Convert

SpecConvert == Init /\ [][NextConvert]_vars

\* ------------------------------------------------------- reading the output
Keywords ==
  {"POLYGON", "CURVEPOLYGON", "LINESTRING", "MULTILINESTRING", "COMPOUNDCURVE",
   "CIRCULARSTRING", "GEOMETRYCOLLECTION", "EMPTY"}

IsNumeral(tok) == tok \notin Keywords \cup {"(", ")", ",", " "}

Numerals(toks) == SelectSeq(toks, IsNumeral)

Count(toks, tok) == Cardinality({i \in DOMAIN toks : toks[i] = tok})

\* The pieces of a text between its commas outside all parentheses.
RECURSIVE SplitTopFrom(_, _, _, _)
SplitTopFrom(toks, i, depth, cur) ==
  IF i > Len(toks) THEN <<cur>>
  ELSE IF toks[i] = "," /\ depth = 0
    THEN <<cur>> \o SplitTopFrom(toks, i + 1, 0, <<>>)
  ELSE The({SplitTopFrom(toks, i + 1, dp, nx)
            : dp \in {depth + (IF toks[i] = "(" THEN 1 ELSE IF toks[i] = ")" THEN -1 ELSE 0)},
              nx \in {Append(cur, toks[i])}})

SplitTop(toks) == The({SplitTopFrom(t, 1, 0, <<>>) : t \in {toks}})

\* What stands between the parentheses of KEYWORD( ... ).
Inside(toks) == SubSeq(toks, 3, Len(toks) - 1)

LineStringEmpty == <<"LINESTRING", " ", "EMPTY">>

\* The rings of a path argument, as the code's polys; none for an open path.
RingsOf(d) ==
  LET rings == Rings(ArcFix(d), <<>>)
  IN [i \in DOMAIN rings |-> getPathData(rings[i])]

IsClosedCall == op = "path" /\ Len(RingsOf(arg)) > 0

AnyArc(polys) == \E i \in DOMAIN polys : HasType(polys[i], "A")

\* Some ring holds a command __curveString flattens by sampling.
AnyFlattened(polys) ==
  \E i \in DOMAIN polys : \E j \in DOMAIN polys[i] :
    polys[i][j].type \notin {"M", "L", "Z"} /\ ~IsCircular(polys[i][j])

AnyShort(polys) == \E i \in DOMAIN polys : Len(polys[i]) < 5

\* ----------------------------------------------------------------------- C1
\* C1 as stated, of the calls that return: a closed path with a ring of
\* fewer than 5 commands yields exactly LINESTRING EMPTY, arcs in its rings
\* or not.
C1_AsStated ==
  (IsClosedCall /\ AnyShort(RingsOf(arg)) /\ ~ret.threw)
    => ret.text = LineStringEmpty

\* C1 amended: when no ring has an arc, a ring of fewer than 5 commands
\* leaves LINESTRING EMPTY the only value path returns, whatever the other
\* rings hold; when some ring has an arc the ring sizes are not looked at
\* and the value returned is a CURVEPOLYGON.  Every ring is converted before
\* either test, so the call throws instead of returning when a ring holds a
\* flattened curve whose sample count is 0, and only then.
C1_ShortRingCollapses ==
  IsClosedCall
    => /\ ret.threw => AnyFlattened(RingsOf(arg))
       /\ (~ret.threw /\ ~AnyArc(RingsOf(arg)) /\ AnyShort(RingsOf(arg)))
            => ret.text = LineStringEmpty
       /\ (~ret.threw /\ AnyArc(RingsOf(arg)))
            => (ret.text[1] = "CURVEPOLYGON" /\ ret.text # LineStringEmpty)

\* A short ring beside a well-formed one, no arcs: the whole path collapses.
C1_Witness ==
  /\ IsClosedCall
  /\ Len(RingsOf(arg)) = 2
  /\ ~AnyArc(RingsOf(arg))
  /\ Len(RingsOf(arg)[1]) = 5
  /\ Len(RingsOf(arg)[2]) = 3
  /\ ~ret.threw
  /\ ret.text = LineStringEmpty

\* ----------------------------------------------------------------------- C4
\* M p0 L p1 ... L pn Z with n >= 3.
IsLinearRing(d) ==
  /\ Len(d) >= 5
  /\ d[1].type = "M"
  /\ d[Len(d)].type = "Z"
  /\ \A i \in 2..(Len(d) - 1) : d[i].type = "L"

\* p0 .. pn of a linear ring.
Vertices(d) == [i \in 1..(Len(d) - 1) |-> Pt(d[i].values[1], d[i].values[2])]

\* POLYGON((...)) of p0 .. pn, then p0 again when pn is another point.
RingText(d) ==
  LET v == Vertices(d)
      ring == IF v[Len(v)] = v[1] THEN v ELSE Append(v, v[1])
  IN "POLYGON(("
       \o Text(Join([i \in DOMAIN ring |-> <<NumStr(ring[i].x), " ", NumStr(-ring[i].y)>>],
                    <<",">>))
       \o "))"

\* The rectangle (x, y, w, h) whose outline the path argument is.
RectOf(d) ==
  [x |-> JNum(d[1].values[1]), y |-> JNum(d[1].values[2]),
   w |-> JNum(d[3].values[1] - d[1].values[1]),
   h |-> JNum(d[3].values[2] - d[1].values[2])]

RectTextOf(d) == Text(rect(RectOf(d).x, RectOf(d).y, RectOf(d).w, RectOf(d).h))

\* C4 as stated: the ring lists p0 .. pn, then p0 again iff pn differs from
\* p0, and the outline of every rectangle yields the text of rect.
C4_AsStated ==
  /\ (op = "path" /\ IsLinearRing(arg))
       => (~ret.threw /\ Text(ret.text) = RingText(arg))
  /\ (op = "path" /\ arg \in RectPaths)
       => (~ret.threw /\ Text(ret.text) = RectTextOf(arg))

\* C4 amended: the ring lists p0 .. pn with each Y negated once, then p0
\* again iff pn differs from p0; the outline of the rectangle (x, y, w, h)
\* yields the text of rect(x, y, w, h) when h is not 0.
C4_LinearRing ==
  /\ (op = "path" /\ IsLinearRing(arg))
       => (~ret.threw /\ Text(ret.text) = RingText(arg))
  /\ (op = "path" /\ arg \in RectPaths /\ RectOf(arg).h.v # 0)
       => (~ret.threw /\ Text(ret.text) = RectTextOf(arg))

\* The outline of rect(0, 0, 10, 10), converted.
C4_Witness ==
  /\ op = "path"
  /\ arg = RectPath(U(0), U(0), U(10), U(10))
  /\ ~ret.threw
  /\ Text(ret.text) = "POLYGON((0 0,10 0,10 -10,0 -10,0 0))"
  /\ Text(ret.text) = RectTextOf(arg)

\* ----------------------------------------------------------------------- C2
IsShape(e) == \E k \in DOMAIN Tags : Tags[k] = e.nodeName

Rank(e) == CHOOSE k \in DOMAIN Tags : Tags[k] = e.nodeName

ShapePositions(els) == {i \in DOMAIN els : IsShape(els[i])}

\* The positions of the shapes: by tag name as convert lists the names,
\* and by position in the document among the elements of one name.
TagOrder(els) ==
  CHOOSE f \in [1..Cardinality(ShapePositions(els)) -> ShapePositions(els)] :
    \A a, b \in DOMAIN f :
      a < b => \/ Rank(els[f[a]]) < Rank(els[f[b]])
               \/ (Rank(els[f[a]]) = Rank(els[f[b]]) /\ f[a] < f[b])

\* The positions of the shapes in document order.
DocumentOrder(els) ==
  CHOOSE f \in [1..Cardinality(ShapePositions(els)) -> ShapePositions(els)] :
    \A a, b \in DOMAIN f : a < b => f[a] < f[b]

Collection(els, order) ==
  Text(<<"GEOMETRYCOLLECTION", "(">>
         \o Join([a \in DOMAIN order |-> __createWKT(els[order[a]]).text], <<",">>)
         \o <<")">>)

\* C2 as stated: detail lists the fragments of the shape elements in
\* document order, for any mix of tag names.
C2_AsStated ==
  (op = "convert" /\ ~ret.threw)
    => Text(ret.value[1].detail) = Collection(arg.els, DocumentOrder(arg.els))

\* C2 amended: in the value convert returns, detail lists the fragments of
\* the shape elements grouped by tag name in the order polygon, polyline,
\* line, rect, circle, ellipse, path, and in document order within one name.
C2_DetailByTagThenDocument ==
  (op = "convert" /\ ~ret.threw)
    => Text(ret.value[1].detail) = Collection(arg.els, TagOrder(arg.els))

\* A rect written before a polygon: the polygon's fragment comes first.
C2_Witness ==
  /\ op = "convert"
  /\ ~ret.threw
  /\ Len(arg.els) = 2
  /\ arg.els[1].nodeName = "rect"
  /\ arg.els[2].nodeName = "polygon"
  /\ Text(ret.value[1].detail) =
       "GEOMETRYCOLLECTION(POLYGON((0 0,10 0,10 -10,0 0)),POLYGON((0 0,10 0,10 -10,0 -10,0 0)))"

\* ----------------------------------------------------------------------- C3
\* A coordinate that is missing or not a number counts as 0.
OrZero(a) == IF a.t = "num" THEN a.v ELSE 0

\* POLYGON((x -y,x+w -y,x+w -y-h,x -y-h,x -y)).
RectText(x, y, w, h) ==
  "POLYGON((" \o NumStr(x) \o " " \o NumStr(-y) \o ","
    \o NumStr(x + w) \o " " \o NumStr(-y) \o ","
    \o NumStr(x + w) \o " " \o NumStr(-y - h) \o ","
    \o NumStr(x) \o " " \o NumStr(-y - h) \o ","
    \o NumStr(x) \o " " \o NumStr(-y) \o "))"

\* C3: a rectangle whose x or y is missing or not a number is drawn with 0
\* in its place, called directly or dispatched from a <rect> element, and
\* its text holds no not-a-number token.
C3_RectOriginDefaultsToZero ==
  /\ op = "rect"
       => Text(ret) = RectText(OrZero(arg[1]), OrZero(arg[2]), arg[3].v, arg[4].v)
  /\ (op = "__createWKT" /\ arg.nodeName = "rect")
       => /\ ~ret.threw
          /\ Text(ret.text) =
               RectText(OrZero(parseFloat(Attr(arg, "x"))), OrZero(parseFloat(Attr(arg, "y"))),
                        parseFloat(Attr(arg, "width")).v, parseFloat(Attr(arg, "height")).v)
          /\ Count(ret.text, "NaN") = 0

\* ----------------------------------------------------------------------- C5
IsOpenCall == op = "path" /\ Len(RingsOf(arg)) = 0

\* The normalized commands of an open path argument.
Normalized(d) == getPathData(ArcFix(d))

MoveToAt(data) == {i \in DOMAIN data : data[i].type = "M"}

\* The n-th MoveTo-started group of the commands.
GroupAt(data, n) ==
  LET first == CHOOSE i \in MoveToAt(data) :
                 Cardinality({j \in MoveToAt(data) : j < i}) = n - 1
      later == {j \in MoveToAt(data) : j > first}
      last == IF later = {} THEN Len(data)
              ELSE (CHOOSE j \in later : \A k \in later : j <= k) - 1
  IN SubSeq(data, first, last)

GroupsOf(data) == [n \in 1..Cardinality(MoveToAt(data)) |-> GroupAt(data, n)]

ArcFree(groups) == SelectSeq(groups, LAMBDA g : ~HasType(g, "A"))

ArcBearing(groups) == SelectSeq(groups, LAMBDA g : HasType(g, "A"))

IsParenthesized(toks) ==
  /\ Len(toks) >= 2
  /\ toks[1] = "("
  /\ toks[Len(toks)] = ")"
  /\ Count(toks, "(") = 1
  /\ Count(toks, "EMPTY") = 0

\* C5: an open path with k >= 2 arc-free groups yields one MULTILINESTRING
\* of k parenthesized point lists, no LINESTRING, and after it one
\* COMPOUNDCURVE per arc-bearing group.
C5_OneMultiLineString ==
  (IsOpenCall /\ Len(ArcFree(GroupsOf(Normalized(arg)))) >= 2)
    => /\ ~ret.threw
       /\ LET top == SplitTop(ret.text)
               k == Len(ArcFree(GroupsOf(Normalized(arg))))
               c == Len(ArcBearing(GroupsOf(Normalized(arg))))
           IN /\ Len(top) = 1 + c
              /\ top[1][1] = "MULTILINESTRING"
              /\ Len(SplitTop(Inside(top[1]))) = k
              /\ \A i \in 1..k : IsParenthesized(SplitTop(Inside(top[1]))[i])
              /\ Count(ret.text, "LINESTRING") = 0
              /\ \A i \in 2..(1 + c) : top[i][1] = "COMPOUNDCURVE"

\* ----------------------------------------------------------------------- C6
\* C6: after any sequence of convert calls nothing of them is left: no tree
\* in the host document, no variable written during a call.
C6_NothingEscapes == op = "convert" => (body = <<>> /\ globals = NoGlobals)

\* ----------------------------------------------------------------------- C7
\* C7: __interpolatedPoints returns round(length * DENSITY) + 1 points, the
\* first at the start of the curve and the last at its end, also when the
\* count rounds to 0.
C7_CountPlusOneSamples ==
  op = "__interpolatedPoints"
    => LET length == getTotalLength(arg.s, arg.step)
           count == (2 * length * DENSITY + root) \div (2 * root)
       IN /\ ~ret.threw
          /\ Len(ret.pts) = count + 1
          /\ ret.pts[1] = arg.s
          /\ ret.pts[count + 1] = Pt(arg.step.values[Len(arg.step.values) - 1],
                                      arg.step.values[Len(arg.step.values)])

\* ----------------------------------------------------------------------- C8
\* M p0 L p1 L p2 Z.
IsTriangle(d) ==
  /\ Len(d) = 4
  /\ d[1].type = "M" /\ d[2].type = "L" /\ d[3].type = "L" /\ d[4].type = "Z"
  /\ Cardinality({d[1].values, d[2].values, d[3].values}) = 3

\* C8: every ring of a POLYGON returned for a closed arc-free path has at
\* least 4 coordinate pairs, and a triangle M p0 L p1 L p2 Z is not turned
\* into LINESTRING EMPTY.
C8_LinearRingsOfFourPairs ==
  (IsClosedCall /\ ~AnyArc(RingsOf(arg)) /\ ~ret.threw)
    => /\ ret.text[1] = "POLYGON"
            => \A i \in DOMAIN SplitTop(Inside(ret.text)) :
                 Len(Numerals(SplitTop(Inside(ret.text))[i])) >= 8
       /\ IsTriangle(arg) => ret.text # LineStringEmpty

\* ----------------------------------------------------------------------- C9
\* C9: the coordinate text of every ring of a returned POLYGON or
\* CURVEPOLYGON ends on the point it starts on.
C9_RingTextClosed ==
  (IsClosedCall /\ ~ret.threw /\ ret.text[1] \in {"POLYGON", "CURVEPOLYGON"})
    => \A i \in DOMAIN RingsOf(arg) :
         LET ns == Numerals(__curveString(RingsOf(arg)[i]).text)
         IN /\ Len(ns) >= 4
            /\ ns[1] = ns[Len(ns) - 1]
            /\ ns[2] = ns[Len(ns)]

\* ---------------------------------------------------------------------- C10
\* The fragments of a ring's curve string: its pieces between top-level
\* commas.
Fragments(poly) == SplitTop(__curveString(poly).text)

\* C10: the POLYGON or CURVEPOLYGON of a closed path of n rings has n
\* top-level members, and the member of a ring of several fragments is one
\* COMPOUNDCURVE.
C10_OneMemberPerRing ==
  (IsClosedCall /\ ~ret.threw /\ ret.text[1] \in {"POLYGON", "CURVEPOLYGON"})
    => /\ Len(SplitTop(Inside(ret.text))) = Len(RingsOf(arg))
       /\ \A i \in DOMAIN RingsOf(arg) :
            Len(Fragments(RingsOf(arg)[i])) > 1
              => SplitTop(Inside(ret.text))[i][1] = "COMPOUNDCURVE"

====
